---- MODULE Spec2Model ----
(***************************************************************************)
(* A model of src/src/main.rs: a command-line HTTP client that resolves    *)
(* the method, validates the URL, sends one request and prints the         *)
(* response.  Text whose characters the code inspects (the method, the     *)
(* form data, the URL parser's messages, JSON keys) is a sequence of       *)
(* characters; text the code only passes on is a string.                   *)
(***************************************************************************)
EXTENDS Naturals, Sequences, FiniteSets

VARIABLES
    args,            \* Cli: url, method, data, json (main.rs:10-21)
    preserve_order,  \* build: serde_json's Map keeps insertion order (feature preserve_order)
    pc,              \* position in main
    method,          \* main's local `method`
    parsed,          \* main's local `parsed`: the result of Url::parse
    out,             \* standard output, one entry per println!
    calls,           \* library calls made so far, in order
    sent,            \* requests handed to the transport
    result,          \* what the transport returned
    exit             \* "running", "ok" (main returned) or "panic"

vars == <<args, preserve_order, pc, method, parsed, out, calls, sent, result, exit>>

----------------------------------------------------------------------------
(* Bounds of the model *)

\* longest form-data string drawn in SpecForm
MaxDataLen == 4
\* most entries of an object and most elements of an array in a drawn body
MaxWidth == 2

----------------------------------------------------------------------------
(* Characters and strings *)

Upper == <<"A","B","C","D","E","F","G","H","I","J","K","L","M",
           "N","O","P","Q","R","S","T","U","V","W","X","Y","Z">>
Lower == <<"a","b","c","d","e","f","g","h","i","j","k","l","m",
           "n","o","p","q","r","s","t","u","v","w","x","y","z">>

to_ascii_lowercase(c) ==
    IF \E i \in DOMAIN Upper : Upper[i] = c
    THEN Lower[CHOOSE i \in DOMAIN Upper : Upper[i] = c]
    ELSE c

eq_ignore_ascii_case(a, b) ==
    /\ Len(a) = Len(b)
    /\ \A i \in DOMAIN a : to_ascii_lowercase(a[i]) = to_ascii_lowercase(b[i])

\* str::contains: pat occurs in s as a contiguous substring
contains(s, pat) ==
    \E i \in 0..Len(s) :
        /\ i + Len(pat) <= Len(s)
        /\ \A j \in DOMAIN pat : s[i + j] = pat[j]

GET  == <<"G", "E", "T">>
POST == <<"P", "O", "S", "T">>

\* Option<T>
None    == [some |-> FALSE, v |-> <<>>]
Some(x) == [some |-> TRUE, v |-> x]

----------------------------------------------------------------------------
(* JSON documents and serde_json::Value *)

\* A node is a number, null, an array or an object; an array's and an
\* object's children are entries [k, v] (k is empty for an array element).
\* Keys are sequences of bytes, compared as Rust compares Strings.
Null      == [t |-> "null", n |-> 0, e |-> <<>>]
Num(n)    == [t |-> "num", n |-> n, e |-> <<>>]
Arr(xs)   == [t |-> "arr", n |-> 0, e |-> [i \in DOMAIN xs |-> [k |-> <<>>, v |-> xs[i]]]]
Obj(es)   == [t |-> "obj", n |-> 0, e |-> es]
Entry(k, v) == [k |-> k, v |-> v]

Ka == <<97>>
Kb == <<98>>
Kc == <<99>>
Kd == <<100>>

\* String's Ord: byte-wise lexicographic, a proper prefix first
KeyLess(a, b) ==
    \E i \in 1..(Len(b)) :
        /\ \A j \in 1..(i - 1) : j <= Len(a) /\ a[j] = b[j]
        /\ \/ i = Len(a) + 1
           \/ i <= Len(a) /\ a[i] < b[i]

\* A text is either a JSON document (its tree, members in the order written,
\* duplicate keys allowed) or something that is not JSON.
JsonText(doc) == [json |-> TRUE, doc |-> doc, raw |-> ""]
RawText(s)    == [json |-> FALSE, doc |-> Null, raw |-> s]
NoText        == RawText("")

\* Map::insert with preserve_order: IndexMap (an existing key keeps its
\* place, a new key goes last).
map_insert_indexmap(m, k, v) ==
    IF \E i \in DOMAIN m : m[i].k = k
    THEN [i \in DOMAIN m |-> IF m[i].k = k THEN Entry(k, v) ELSE m[i]]
    ELSE Append(m, Entry(k, v))

\* Map::insert without it: BTreeMap (entries are kept in key order).
map_insert_btreemap(m, k, v) ==
    IF \E i \in DOMAIN m : m[i].k = k
    THEN [i \in DOMAIN m |-> IF m[i].k = k THEN Entry(k, v) ELSE m[i]]
    ELSE SelectSeq(m, LAMBDA x : KeyLess(x.k, k)) \o <<Entry(k, v)>>
         \o SelectSeq(m, LAMBDA x : KeyLess(k, x.k))

map_insert(m, k, v) ==
    IF preserve_order THEN map_insert_indexmap(m, k, v)
    ELSE map_insert_btreemap(m, k, v)

RECURSIVE BuildValue(_)
RECURSIVE BuildMap(_, _, _)
\* the Map a JSON object deserializes to: its members inserted in turn
BuildMap(es, i, acc) ==
    IF i > Len(es) THEN acc
    ELSE BuildMap(es, i + 1, map_insert(acc, es[i].k, BuildValue(es[i].v)))

\* the Value a document deserializes to
BuildValue(d) ==
    IF d.t = "obj" THEN Obj(BuildMap(d.e, 1, <<>>))
    ELSE IF d.t = "arr" THEN Arr([i \in DOMAIN d.e |-> BuildValue(d.e[i].v)])
    ELSE d

\* serde_json::from_str::<Value>
from_str(text) ==
    IF text.json THEN [ok |-> TRUE, v |-> BuildValue(text.doc)]
    ELSE [ok |-> FALSE, v |-> Null]

\* One line of serde_json::to_string_pretty's output: indent depth, the key
\* it starts with (if it is an object member), its token, and whether a
\* comma ends it.
PLine(ind, hasKey, key, tok, n, comma) ==
    [ind |-> ind, hasKey |-> hasKey, key |-> key, tok |-> tok, n |-> n, comma |-> comma]

RECURSIVE Pretty(_, _, _, _, _)
RECURSIVE PrettyEntries(_, _, _)
PrettyEntries(v, i, ind) ==
    IF i > Len(v.e) THEN <<>>
    ELSE Pretty(v.e[i].v, ind, v.t = "obj", v.e[i].k, i < Len(v.e))
         \o PrettyEntries(v, i + 1, ind)

Pretty(v, ind, hasKey, key, comma) ==
    IF v.t \in {"num", "null"} THEN <<PLine(ind, hasKey, key, v.t, v.n, comma)>>
    ELSE IF Len(v.e) = 0
    THEN <<PLine(ind, hasKey, key, IF v.t = "obj" THEN "{}" ELSE "[]", 0, comma)>>
    ELSE <<PLine(ind, hasKey, key, IF v.t = "obj" THEN "{" ELSE "[", 0, FALSE)>>
         \o PrettyEntries(v, 1, ind + 1)
         \o <<PLine(ind, FALSE, <<>>, IF v.t = "obj" THEN "}" ELSE "]", 0, comma)>>

to_string_pretty(v) == Pretty(v, 0, FALSE, <<>>, FALSE)

RECURSIVE sort(_)
\* keys.sort(): the keys in ascending order (insertion into a sorted prefix)
sort(keys) ==
    IF Len(keys) <= 1 THEN keys
    ELSE LET rest == sort(Tail(keys))
             k    == Head(keys)
         IN  SelectSeq(rest, LAMBDA x : KeyLess(x, k)) \o <<k>>
             \o SelectSeq(rest, LAMBDA x : ~KeyLess(x, k))

\* map[k]
map_get(m, k) == m[CHOOSE i \in DOMAIN m : m[i].k = k].v

RECURSIVE InsertAll(_, _, _, _)
\* for k in keys { sorted.insert(k.clone(), map[k].clone()) }
InsertAll(keys, i, map, sorted) ==
    IF i > Len(keys) THEN sorted
    ELSE InsertAll(keys, i + 1, map, map_insert(sorted, keys[i], map_get(map, keys[i])))

sort_json_keys(value) ==
    IF value.t = "obj"
    THEN LET keys == sort([i \in DOMAIN value.e |-> value.e[i].k])
         IN  to_string_pretty(Obj(InsertAll(keys, 1, value.e, <<>>)))
    ELSE to_string_pretty(value)

----------------------------------------------------------------------------
(* The url crate: Url::parse and ParseError *)

\* Url::parse on the URLs the model draws: Ok with the (lower-cased) scheme,
\* or Err with a ParseError variant.
UrlOk(href, scheme) == [ok |-> TRUE, href |-> href, scheme |-> scheme, err |-> ""]
UrlErr(kind)        == [ok |-> FALSE, href |-> "", scheme |-> "", err |-> kind]
NoUrl               == UrlErr("")

Url_parse(s) ==
    CASE s = "http://host/path"        -> UrlOk(s, "http")
      [] s = "https://host/"           -> UrlOk(s, "https")
      [] s = "HTTP://host/"            -> UrlOk("http://host/", "http")
      [] s = "ftp://host/file"         -> UrlOk(s, "ftp")
      [] s = "www.example.com"         -> UrlErr("RelativeUrlWithoutBase")
      [] s = "http://127.0.0.1:65536"  -> UrlErr("InvalidPort")
      [] s = "https://255.255.255.256" -> UrlErr("InvalidIpv4Address")
      [] s = "http://[::g]"            -> UrlErr("InvalidIpv6Address")
      [] s = "http://"                 -> UrlErr("EmptyHost")

Urls == {"http://host/path", "https://host/", "HTTP://host/", "ftp://host/file",
         "www.example.com", "http://127.0.0.1:65536", "https://255.255.255.256",
         "http://[::g]", "http://"}

\* ParseError's Display
ParseError_to_string(kind) ==
    CASE kind = "RelativeUrlWithoutBase" -> <<"r", "e", "l", "a", "t", "i", "v", "e", " ", "U", "R", "L", " ", "w", "i", "t", "h", "o", "u", "t", " ", "a", " ", "b", "a", "s", "e">>
      [] kind = "InvalidPort"            -> <<"i", "n", "v", "a", "l", "i", "d", " ", "p", "o", "r", "t", " ", "n", "u", "m", "b", "e", "r">>
      [] kind = "InvalidIpv4Address"     -> <<"i", "n", "v", "a", "l", "i", "d", " ", "I", "P", "v", "4", " ", "a", "d", "d", "r", "e", "s", "s">>
      [] kind = "InvalidIpv6Address"     -> <<"i", "n", "v", "a", "l", "i", "d", " ", "I", "P", "v", "6", " ", "a", "d", "d", "r", "e", "s", "s">>
      [] kind = "EmptyHost"              -> <<"e", "m", "p", "t", "y", " ", "h", "o", "s", "t">>

----------------------------------------------------------------------------
(* Standard output: one record per println!, its format string and argument *)

Plain(f)        == [fmt |-> f, str |-> "", num |-> 0, chars |-> <<>>, text |-> NoText, lines |-> <<>>]
WithStr(f, s)   == [Plain(f) EXCEPT !.str = s]
WithNum(f, n)   == [Plain(f) EXCEPT !.num = n]
WithChars(f, c) == [Plain(f) EXCEPT !.chars = c]
WithText(f, t)  == [Plain(f) EXCEPT !.text = t]
WithLines(f, l) == [Plain(f) EXCEPT !.lines = l]

BaseProtocolMsg == "Error: The URL does not have a valid base protocol."

handle_url_error(err) ==
    LET msg == ParseError_to_string(err)
    IN  IF contains(msg, <<"r", "e", "l", "a", "t", "i", "v", "e", " ", "U", "R", "L">>)
        THEN Plain(BaseProtocolMsg)
        ELSE IF contains(msg, <<"i", "n", "v", "a", "l", "i", "d", " ", "p", "o", "r", "t", " ", "n", "u", "m", "b", "e", "r">>)
        THEN Plain("Error: The URL contains an invalid port number.")
        ELSE IF contains(msg, <<"i", "n", "v", "a", "l", "i", "d", " ", "I", "P", "v", "4", " ", "a", "d", "d", "r", "e", "s", "s">>)
        THEN Plain("Error: The URL contains an invalid IPv4 address.")
        ELSE IF contains(msg, <<"i", "n", "v", "a", "l", "i", "d", " ", "I", "P", "v", "6", " ", "a", "d", "d", "r", "e", "s", "s">>)
        THEN Plain("Error: The URL contains an invalid IPv6 address.")
        ELSE WithChars("Error: {}", msg)

UrlErrorFmts == {BaseProtocolMsg,
                 "Error: The URL contains an invalid port number.",
                 "Error: The URL contains an invalid IPv4 address.",
                 "Error: The URL contains an invalid IPv6 address.",
                 "Error: {}"}

----------------------------------------------------------------------------
(* The transport: requests and what comes back *)

NoBody         == [readable |-> FALSE, text |-> NoText]
Body(text)     == [readable |-> TRUE, text |-> text]
ConnErr        == [ok |-> FALSE, status |-> 0, body |-> NoBody]
Resp(st, body) == [ok |-> TRUE, status |-> st, body |-> body]
NoResult       == [ok |-> FALSE, status |-> 1, body |-> NoBody]

GetRequest(url) ==
    [method |-> "GET", url |-> url.href, content_type |-> "", body |-> "none",
     form |-> <<>>, json |-> Null]
FormRequest(url, pairs) ==
    [method |-> "POST", url |-> url.href,
     content_type |-> "application/x-www-form-urlencoded", body |-> "form",
     form |-> pairs, json |-> Null]
JsonRequest(url, value) ==
    [method |-> "POST", url |-> url.href, content_type |-> "application/json",
     body |-> "json", form |-> <<>>, json |-> value]

\* a variant of is_success whose range is closed at 300
is_success_upto_300(status) == 200 <= status /\ status <= 300

\* StatusCode::is_success
is_success(status) == 200 <= status /\ status < 300

GetConnectMsg ==
    "Error: Unable to connect to the server. Perhaps the network is offline or the server hostname cannot be resolved."
PostConnectMsg == "Error: Unable to connect to the server."
StatusFmt == "Error: Request failed with status code: {}."
JsonBodyFmt == "Response body (JSON with sorted keys):\n{}"
RawBodyFmt == "Response body:\n{}"

\* print_response: the lines it prints and the calls it makes
print_response(res) ==
    IF ~is_success(res.status)
    THEN [out |-> <<WithNum(StatusFmt, res.status)>>, calls |-> <<>>]
    ELSE LET text == IF res.body.readable THEN res.body.text
                     ELSE RawText("No response body.")
             json == from_str(text)
         IN  [out   |-> <<IF json.ok
                          THEN WithLines(JsonBodyFmt, sort_json_keys(json.v))
                          ELSE WithText(RawBodyFmt, text)>>,
              calls |-> <<"Response::text", "from_str(body)">>]

----------------------------------------------------------------------------
(* Form data *)

FirstIndex(s, c) == CHOOSE i \in DOMAIN s : s[i] = c /\ \A j \in 1..(i - 1) : s[j] # c

RECURSIVE split(_, _)
\* str::split(c): the pieces between the separators, empty ones included
split(s, c) ==
    IF ~\E i \in DOMAIN s : s[i] = c THEN <<s>>
    ELSE LET i == FirstIndex(s, c)
         IN  <<SubSeq(s, 1, i - 1)>> \o split(SubSeq(s, i + 1, Len(s)), c)

LastIndex(s, c) == CHOOSE i \in DOMAIN s : s[i] = c /\ \A j \in (i + 1)..Len(s) : s[j] # c

\* a variant of split_once that splits at the last c (str::rsplit_once)
rsplit_once(s, c) ==
    IF ~\E i \in DOMAIN s : s[i] = c THEN None
    ELSE LET i == LastIndex(s, c)
         IN  Some(<<SubSeq(s, 1, i - 1), SubSeq(s, i + 1, Len(s))>>)

\* str::split_once(c): the text before and after the first c
split_once(s, c) ==
    IF ~\E i \in DOMAIN s : s[i] = c THEN None
    ELSE LET i == FirstIndex(s, c)
         IN  Some(<<SubSeq(s, 1, i - 1), SubSeq(s, i + 1, Len(s))>>)

RECURSIVE filter_map_split_once(_)
filter_map_split_once(segs) ==
    IF segs = <<>> THEN <<>>
    ELSE LET p == split_once(Head(segs), "=")
         IN  (IF p.some THEN <<p.v>> ELSE <<>>) \o filter_map_split_once(Tail(segs))

\* handle_form_post's form_data
form_data(data) == filter_map_split_once(split(data, "&"))

----------------------------------------------------------------------------
(* main *)

\* a variant of resolve_method without the POST inference
resolve_method_no_infer(a) == IF a.method.some THEN a.method.v ELSE GET

\* main.rs:27-30
resolve_method(a) ==
    LET m == IF a.method.some THEN a.method.v ELSE GET
    IN  IF eq_ignore_ascii_case(m, GET) /\ (a.json.some \/ a.data.some)
        THEN POST ELSE m

MainResolve ==
    /\ pc = "resolve"
    /\ method' = resolve_method(args)
    /\ pc' = "announce"
    /\ UNCHANGED <<args, preserve_order, parsed, out, calls, sent, result, exit>>

\* a variant of MainAnnounce that leaves the method line out
MainAnnounce_url_only ==
    /\ pc = "announce"
    /\ out' = out \o <<WithStr("Requesting URL: {}", args.url)>>
    /\ pc' = "parse"
    /\ UNCHANGED <<args, preserve_order, method, parsed, calls, sent, result, exit>>

MainAnnounce ==
    /\ pc = "announce"
    /\ out' = out \o <<WithStr("Requesting URL: {}", args.url),
                       WithChars("Method: {}", method)>>
    /\ pc' = "parse"
    /\ UNCHANGED <<args, preserve_order, method, parsed, calls, sent, result, exit>>

MainParseUrl ==
    /\ pc = "parse"
    /\ calls' = Append(calls, "Url::parse")
    /\ parsed' = Url_parse(args.url)
    /\ IF parsed'.ok
       THEN /\ pc' = "scheme"
            /\ UNCHANGED <<out, exit>>
       ELSE /\ out' = Append(out, handle_url_error(parsed'.err))
            /\ pc' = "done"
            /\ exit' = "ok"
    /\ UNCHANGED <<args, preserve_order, method, sent, result>>

\* a variant of scheme_supported whose allowlist also holds ftp
scheme_supported_with_ftp(scheme) == scheme \in {"http", "https", "ftp"}

scheme_supported(scheme) == ~(scheme # "http" /\ scheme # "https")

MainCheckScheme ==
    /\ pc = "scheme"
    /\ IF ~scheme_supported(parsed.scheme)
       THEN /\ out' = Append(out, Plain(BaseProtocolMsg))
            /\ pc' = "done"
            /\ exit' = "ok"
       ELSE /\ pc' = "dispatch"
            /\ UNCHANGED <<out, exit>>
    /\ UNCHANGED <<args, preserve_order, method, parsed, calls, sent, result>>

PostDataMsg == "Error: POST method requires -d or --json data."

\* a variant of dispatch that looks at the form data first
dispatch_form_first(m, a) ==
    IF m = POST
    THEN IF a.data.some THEN "handle_form_post"
         ELSE IF a.json.some THEN "handle_json_post"
         ELSE "none"
    ELSE "handle_get"

\* main.rs:53-68: which handler the match reaches ("none": the error line)
dispatch(m, a) ==
    IF m = POST
    THEN IF a.json.some THEN "handle_json_post"
         ELSE IF a.data.some THEN "handle_form_post"
         ELSE "none"
    ELSE "handle_get"

MainDispatch ==
    /\ pc = "dispatch"
    /\ calls' = Append(calls, "Client::new")
    /\ IF dispatch(method, args) = "none"
       THEN /\ out' = Append(out, Plain(PostDataMsg))
            /\ pc' = "done"
            /\ exit' = "ok"
       ELSE /\ pc' = dispatch(method, args)
            /\ UNCHANGED <<out, exit>>
    /\ UNCHANGED <<args, preserve_order, method, parsed, sent, result>>

\* what a handler does with the transport's answer
Received(r, connectMsg) ==
    IF r.ok
    THEN print_response(r)
    ELSE [out |-> <<Plain(connectMsg)>>, calls |-> <<>>]

handle_get(Results) ==
    /\ pc = "handle_get"
    /\ \E r \in Results :
        /\ sent' = Append(sent, GetRequest(parsed))
        /\ result' = r
        /\ out' = out \o Received(r, GetConnectMsg).out
        /\ calls' = calls \o <<"send">> \o Received(r, GetConnectMsg).calls
    /\ pc' = "done"
    /\ exit' = "ok"
    /\ UNCHANGED <<args, preserve_order, method, parsed>>

handle_form_post(Results) ==
    /\ pc = "handle_form_post"
    /\ \E r \in Results :
        /\ sent' = Append(sent, FormRequest(parsed, form_data(args.data.v)))
        /\ result' = r
        /\ out' = out \o <<WithChars("Data: {}", args.data.v)>>
                      \o Received(r, PostConnectMsg).out
        /\ calls' = calls \o <<"send">> \o Received(r, PostConnectMsg).calls
    /\ pc' = "done"
    /\ exit' = "ok"
    /\ UNCHANGED <<args, preserve_order, method, parsed>>

\* a variant of handle_json_post that builds and sends the request before it
\* looks at the JSON
handle_json_post_send_first(Results) ==
    /\ pc = "handle_json_post"
    /\ LET json == from_str(args.json.v)
       IN  \E r \in Results :
            /\ sent' = Append(sent, JsonRequest(parsed, json.v))
            /\ result' = r
            /\ IF ~json.ok
               THEN /\ out' = Append(out, WithText("JSON: {}", args.json.v))
                    /\ calls' = calls \o <<"send", "from_str(json)">>
                    /\ exit' = "panic"
               ELSE /\ out' = out \o <<WithText("JSON: {}", args.json.v)>>
                                  \o Received(r, PostConnectMsg).out
                    /\ calls' = calls \o <<"send", "from_str(json)">>
                                      \o Received(r, PostConnectMsg).calls
                    /\ exit' = "ok"
    /\ pc' = "done"
    /\ UNCHANGED <<args, preserve_order, method, parsed>>

handle_json_post(Results) ==
    /\ pc = "handle_json_post"
    /\ LET json == from_str(args.json.v)
       IN  IF ~json.ok
           THEN /\ out' = Append(out, WithText("JSON: {}", args.json.v))
                /\ calls' = Append(calls, "from_str(json)")
                /\ exit' = "panic"
                /\ UNCHANGED <<sent, result>>
           ELSE /\ \E r \in Results :
                    /\ sent' = Append(sent, JsonRequest(parsed, json.v))
                    /\ result' = r
                    /\ out' = out \o <<WithText("JSON: {}", args.json.v)>>
                                  \o Received(r, PostConnectMsg).out
                    /\ calls' = calls \o <<"from_str(json)", "send">>
                                      \o Received(r, PostConnectMsg).calls
                /\ exit' = "ok"
    /\ pc' = "done"
    /\ UNCHANGED <<args, preserve_order, method, parsed>>

----------------------------------------------------------------------------
(* Inputs *)

SeqsUpTo(S, n) == UNION {[1..m -> S] : m \in 0..n}

Methods == {None, Some(GET), Some(<<"g", "e", "t">>), Some(<<"G", "e", "t">>),
            Some(POST), Some(<<"p", "o", "s", "t">>), Some(<<"P", "U", "T">>)}

SpecExampleData == <<"a", "=", "1", "&", "b", "=", "2", "&", "b", "r", "o", "k", "e", "n">>

Datas == {None, Some(SpecExampleData), Some(<<"k", "=", "v", "=", "w", "&", "&", "=", "x", "&", "y">>), Some(<<"b", "r", "o", "k", "e", "n">>)}

\* {"b":1,"a":{"d":2,"c":3}}
SpecExampleDoc ==
    Obj(<<Entry(Kb, Num(1)), Entry(Ka, Obj(<<Entry(Kd, Num(2)), Entry(Kc, Num(3))>>))>>)

Jsons == {None, Some(JsonText(SpecExampleDoc)), Some(RawText("{bad"))}

Statuses == {199, 200, 299, 300, 404, 500}

Bodies == {NoBody, Body(RawText("hello")), Body(JsonText(Num(1))),
           Body(JsonText(SpecExampleDoc)),
           Body(JsonText(Arr(<<Obj(<<Entry(Kb, Num(1)), Entry(Ka, Num(2))>>), Num(3)>>)))}

Results == {ConnErr} \cup {Resp(st, b) : st \in Statuses, b \in Bodies}

Cli(url, m, d, j) == [url |-> url, method |-> m, data |-> d, json |-> j]

Init ==
    /\ args \in {Cli(u, m, d, j) : u \in Urls, m \in Methods, d \in Datas, j \in Jsons}
    /\ preserve_order \in BOOLEAN
    /\ pc = "resolve"
    /\ method = <<>>
    /\ parsed = NoUrl
    /\ out = <<>>
    /\ calls = <<>>
    /\ sent = <<>>
    /\ result = NoResult
    /\ exit = "running"

Next ==
    \/ MainResolve
    \/ MainAnnounce
    \/ MainParseUrl
    \/ MainCheckScheme
    \/ MainDispatch
    \/ handle_get(Results)
    \/ handle_form_post(Results)
    \/ handle_json_post(Results)

Spec == Init /\ [][Next]_vars

----------------------------------------------------------------------------
(* handle_form_post on every short form-data string *)

FormAlphabet == {"a", "=", "&"}
FormStrings == SeqsUpTo(FormAlphabet, MaxDataLen) \cup {SpecExampleData}
FormResults == {ConnErr, Resp(200, Body(RawText("ok")))}

\* main has resolved POST for `-d data`, accepted the URL and reached the handler
InHandler(a, m, h) ==
    /\ args = a
    /\ pc = h
    /\ method = m
    /\ parsed = Url_parse(a.url)
    /\ out = <<WithStr("Requesting URL: {}", a.url), WithChars("Method: {}", m)>>
    /\ calls = <<"Url::parse", "Client::new">>
    /\ sent = <<>>
    /\ result = NoResult
    /\ exit = "running"

InitForm ==
    /\ preserve_order \in BOOLEAN
    /\ \E d \in FormStrings :
        InHandler(Cli("http://host/path", None, Some(d), None), POST, "handle_form_post")

NextForm == handle_form_post(FormResults)

SpecForm == InitForm /\ [][NextForm]_vars

----------------------------------------------------------------------------
(* print_response on every small JSON body *)

Keys == {Ka, Kb}
Members(S) == {Entry(k, v) : k \in Keys, v \in S}
\* a number, or an object of at most two numeric members
Inner ==
    {Num(1), Obj(<<>>)}
      \cup {Obj(<<x>>) : x \in Members({Num(1)})}
      \cup {Obj(<<x, y>>) : x \in Members({Num(1)}), y \in Members({Num(1)})}
\* those, and the arrays and objects of at most MaxWidth of them
Docs ==
    Inner \cup {Arr(xs) : xs \in SeqsUpTo(Inner, MaxWidth)}
          \cup {Obj(es) : es \in SeqsUpTo(Members(Inner), MaxWidth)}

FmtBodies == {NoBody, Body(RawText("hello"))} \cup {Body(JsonText(d)) : d \in Docs}
FmtResults == {Resp(st, b) : st \in {200, 404}, b \in FmtBodies}

InitFmt ==
    /\ preserve_order \in BOOLEAN
    /\ InHandler(Cli("http://host/path", None, None, None), GET, "handle_get")

NextFmt == handle_get(FmtResults)

SpecFmt == InitFmt /\ [][NextFmt]_vars

----------------------------------------------------------------------------
(* Properties *)

InSeq(x, s) == \E i \in DOMAIN s : s[i] = x
HasLine(f) == \E i \in DOMAIN out : out[i].fmt = f
LastOut == out[Len(out)]
HasBodyArg == args.data.some \/ args.json.some
\* the URL passed parsing and the scheme check
UrlAccepted == parsed.ok /\ parsed.scheme \in {"http", "https"}
\* the URL has been parsed and was rejected
UrlRejected == InSeq("Url::parse", calls) /\ ~UrlAccepted

\* C1: with an explicit method (any spelling, any body flags) the resolved
\* method, as announced and as used, is that value verbatim.
C1_ExplicitMethodVerbatim ==
    (args.method.some /\ pc # "resolve") =>
        /\ method = args.method.v
        /\ Len(out) >= 2 => out[2] = WithChars("Method: {}", args.method.v)

\* C2: with no explicit method the resolved method is POST when form or
\* JSON data is present and GET when neither is.
C2_InferredMethod ==
    (~args.method.some /\ pc # "resolve") =>
        method = IF HasBodyArg THEN POST ELSE GET

C2_Witness ==
    /\ pc = "done"
    /\ ~args.method.some
    /\ args.data.some
    /\ ~args.json.some
    /\ method = POST
    /\ sent # <<>>

\* C3: nothing is sent, built or echoed unless the URL parsed and its scheme
\* is http or https; a run whose URL is rejected prints exactly one URL error
\* line after the two announcement lines and ends.
C3_RejectedUrlStops ==
    /\ (sent # <<>> \/ InSeq("Client::new", calls) \/ InSeq("send", calls)
           \/ HasLine("Data: {}") \/ HasLine("JSON: {}"))
        => UrlAccepted
    /\ (UrlRejected /\ pc = "done") =>
        /\ Len(out) = 3
        /\ out[3].fmt \in UrlErrorFmts
        /\ calls = <<"Url::parse">>
        /\ sent = <<>>
        /\ exit = "ok"

C3_Witness ==
    /\ pc = "done"
    /\ parsed.ok
    /\ parsed.scheme = "ftp"
    /\ HasBodyArg
    /\ out[3] = Plain(BaseProtocolMsg)

\* C4: a response whose status is outside 200-299 yields the status failure
\* line as the only response output; its body is not read, parsed or printed.
C4_FailureStatusOnly ==
    (result.ok /\ ~(result.status \in 200..299)) =>
        /\ LastOut = WithNum(StatusFmt, result.status)
        /\ Len(out) = 3 + (IF sent[1].body = "none" THEN 0 ELSE 1)
        /\ ~HasLine(JsonBodyFmt) /\ ~HasLine(RawBodyFmt)
        /\ ~InSeq("Response::text", calls) /\ ~InSeq("from_str(body)", calls)

C4_Witness ==
    /\ result.ok
    /\ result.status = 404
    /\ result.body.readable /\ result.body.text.json
    /\ sent[1].body = "json"
    /\ LastOut = WithNum(StatusFmt, 404)

\* the connection-failure texts of the three handlers
ConnectMsgs == {GetConnectMsg, PostConnectMsg}

\* C5: a connection error prints one generic text, the same in the GET, the
\* form-POST and the JSON-POST branch.
C5_OneConnectMessage ==
    (pc = "done" /\ sent # <<>> /\ ~result.ok) =>
        \A m \in ConnectMsgs : LastOut = Plain(m)

\* in a pretty-printed value, the keys of each object ascend
KeysAscending(L) ==
    \A i, j \in DOMAIN L :
        (/\ i < j
         /\ L[i].hasKey /\ L[j].hasKey
         /\ L[i].ind = L[j].ind
         /\ \A m \in (i + 1)..(j - 1) : L[m].ind >= L[i].ind)
        => KeyLess(L[i].key, L[j].key)

RECURSIVE Canon(_)
\* a value with every object's members in ascending key order: the member
\* at position i is the one with i - 1 smaller keys
Canon(v) ==
    IF v.t = "obj"
    THEN LET rank(x) == 1 + Cardinality({y \in DOMAIN v.e : KeyLess(v.e[y].k, v.e[x].k)})
         IN  Obj([i \in DOMAIN v.e |->
                    LET x == CHOOSE x \in DOMAIN v.e : rank(x) = i
                    IN  Entry(v.e[x].k, Canon(v.e[x].v))])
    ELSE IF v.t = "arr" THEN Arr([i \in DOMAIN v.e |-> Canon(v.e[i].v)])
    ELSE v

\* a 2xx response whose body is JSON has been printed
JsonBodyShown ==
    /\ result.ok /\ result.status \in 200..299
    /\ result.body.readable /\ result.body.text.json

SegStarts(d) == {1} \cup {i + 1 : i \in {i \in DOMAIN d : d[i] = "&"}}
SegEnd(d, s) ==
    LET amps == {i \in s..Len(d) : d[i] = "&"}
    IN  IF amps = {} THEN Len(d)
        ELSE (CHOOSE i \in amps : \A j \in amps : i <= j) - 1
SegEq(d, s) == {i \in s..SegEnd(d, s) : d[i] = "="}
KeptStarts(d) == {s \in SegStarts(d) : SegEq(d, s) # {}}
ExpectedPairs(d) ==
    [n \in 1..Cardinality(KeptStarts(d)) |->
        LET s == CHOOSE s \in KeptStarts(d) :
                    Cardinality({t \in KeptStarts(d) : t < s}) = n - 1
            q == CHOOSE q \in SegEq(d, s) : \A r \in SegEq(d, s) : q <= r
        IN  <<SubSeq(d, s, q - 1), SubSeq(d, q + 1, SegEnd(d, s))>>]

\* C7: the form pairs sent are, in input order, the '&'-separated segments
\* that hold an '=', each cut at its first '='; the rest are dropped.
C7_FormPairs ==
    (sent # <<>> /\ sent[1].body = "form") =>
        /\ sent[1].form = ExpectedPairs(args.data.v)
        /\ args.data.v = SpecExampleData =>
             sent[1].form = << <<<<"a">>, <<"1">>>>, <<<<"b">>, <<"2">>>> >>

C7_Witness ==
    /\ sent # <<>>
    /\ args.data.v = <<"a", "=", "=", "&">>
    /\ sent[1].form = << <<<<"a">>, <<"=">>>> >>

\* C8: POST with an accepted URL and no data prints the missing-data error
\* and sends nothing; with both kinds of data the JSON branch runs and the
\* form data is not used.
C8_PostBranches ==
    (pc = "done" /\ UrlAccepted /\ method = POST) =>
        /\ ~HasBodyArg =>
            /\ Len(out) = 3 /\ out[3] = Plain(PostDataMsg)
            /\ sent = <<>> /\ ~InSeq("send", calls)
            /\ exit = "ok"
        /\ (args.json.some /\ args.data.some) =>
            /\ out[3] = WithText("JSON: {}", args.json.v)
            /\ ~HasLine("Data: {}")
            /\ InSeq("from_str(json)", calls)
            /\ \A i \in DOMAIN sent :
                 /\ sent[i].body = "json"
                 /\ sent[i].content_type = "application/json"
                 /\ sent[i].form = <<>>
                 /\ sent[i].json = from_str(args.json.v).v

C8_Witness ==
    /\ pc = "done"
    /\ method = POST
    /\ ~HasBodyArg
    /\ out[3] = Plain(PostDataMsg)
    /\ sent = <<>>

\* C9: the method line is on the output before the URL is parsed, and so
\* before any URL error, echo, request or response output: every step that
\* calls a library, sends, or prints after the announcement starts with the
\* line "Method: {resolved method}" already printed second, and only appends.
C9_MethodAnnouncedFirst ==
    [][(calls' # calls \/ sent' # sent \/ (out' # out /\ pc # "announce")) =>
          /\ Len(out) >= 2
          /\ out[2] = WithChars("Method: {}", method)
          /\ SubSeq(out', 1, Len(out)) = out]_vars

C9_Witness ==
    /\ pc = "done"
    /\ UrlRejected
    /\ out[2] = WithChars("Method: {}", POST)
    /\ out[3] = Plain("Error: The URL contains an invalid port number.")

\* C10: a run panics exactly on the JSON-POST path with invalid JSON, after
\* echoing the JSON string and without sending; every other finished run
\* returns normally, has printed a message after the announcement, and has
\* made at most one transport call.
C10_OnlyInvalidJsonAborts ==
    /\ (pc = "done") <=> (exit # "running")
    /\ exit = "panic" <=>
         (pc = "done" /\ UrlAccepted /\ method = POST
          /\ args.json.some /\ ~args.json.v.json)
    /\ exit = "panic" =>
         /\ LastOut = WithText("JSON: {}", args.json.v)
         /\ sent = <<>> /\ ~InSeq("send", calls)
    /\ exit = "ok" =>
         /\ Len(out) >= 3
         /\ Len(sent) <= 1
         /\ Len(SelectSeq(calls, LAMBDA c : c = "send")) = Len(sent)

C10_Witness ==
    /\ exit = "panic"
    /\ args.data.some
    /\ LastOut = WithText("JSON: {}", RawText("{bad"))
    /\ sent = <<>>

====
